---------------------------- MODULE Spec2Model ----------------------------
(***************************************************************************)
(* A model of ARCropolis' plugin entry module (src/src/lib.rs):            *)
(*                                                                         *)
(*   - the path helpers: strip_region_from_path, get_region_from_suffix,   *)
(*     get_region_from_path, PathExtension::smash_hash and                 *)
(*     get_path_from_hash, as operators over strings, and a specification  *)
(*     (SpecPaths) in which the host applies them to bounded inputs;       *)
(*   - the start-up: main, the discovery worker thread it spawns, the      *)
(*     initial_loading hook and the resource table behind                  *)
(*     GLOBAL_FILESYSTEM (specification Spec).                             *)
(*                                                                         *)
(* A string is a sequence of one-character strings.  A u64 is a tuple of   *)
(* four 16-bit limbs, least significant first, so that the 64-bit width    *)
(* and the overflow of u64::from_str_radix are kept.                       *)
(***************************************************************************)
EXTENDS Integers, Sequences, FiniteSets, TLC

VARIABLES
    \* --- the host calling the path helpers (SpecPaths) ---
    pc,          \* "idle" | "returned"
    fn,          \* the helper last called
    arg,         \* its argument
    ret,         \* what it returned (or that it panicked)
    \* --- start-up and discovery (Spec) ---
    mainPc,      \* position of main()
    workers,     \* discovery worker threads spawned so far
    workerPc,    \* position of the discovery worker
    wakeAt,      \* clock value at which the worker's sleep ends
    clock,       \* milliseconds since process attach
    hookDone,    \* initial_loading has run
    events,      \* lifecycle events delivered, in order
    lifecycle,   \* "Empty" | "Discovering" | "Ready"
    table,       \* identity -> resolution entry (the recorded ones)
    warnings,    \* warnings emitted by record
    first,       \* history: identity -> entry given by its first record call
    lastCall,    \* history: the table operation performed by the last step
    beginCalls,  \* history: begin_discovery calls so far
    finishCalls, \* history: finish_discovery calls so far
    readyEntries \* history: times the lifecycle entered Ready

pathVars == <<pc, fn, arg, ret>>
lifeVars == <<mainPc, workers, workerPc, wakeAt, clock, hookDone, events,
              lifecycle, table, warnings, first, lastCall, beginCalls,
              finishCalls, readyEntries>>
vars == <<pc, fn, arg, ret, mainPc, workers, workerPc, wakeAt, clock, hookDone,
          events, lifecycle, table, warnings, first, lastCall, beginCalls,
          finishCalls, readyEntries>>

----------------------------------------------------------------------------
(* Bounds of the model *)

\* longest string enumerated exhaustively over SmallAlphabet
MaxLen == 4
\* longest run of hex digits enumerated exhaustively over HexSample
MaxHexLen == 2
\* record calls the discovery worker makes
MaxRecords == 3
\* calls of begin_discovery, and of finish_discovery, the worker makes
MaxCalls == 2
\* identities the discovery worker may record
NumIds == 2
\* granularity of the clock, in milliseconds
TickMillis == 1000
\* the clock stops advancing here
MaxClock == 7000

----------------------------------------------------------------------------
(* Strings *)

\* s[from..] (1-based), the empty string when from is past the end
DropTo(s, from) == SubSeq(s, from, Len(s))

StartsWith(s, pat) ==
    /\ Len(pat) <= Len(s)
    /\ SubSeq(s, 1, Len(pat)) = pat

\* str::find(c): index of the first c in s, 0 for None
Find(s, c) ==
    IF \E i \in 1..Len(s) : s[i] = c
    THEN CHOOSE i \in 1..Len(s) : s[i] = c /\ \A j \in 1..(i - 1) : s[j] # c
    ELSE 0

\* str::rfind(c): index of the last c in s, 0 for None
RFind(s, c) ==
    IF \E i \in 1..Len(s) : s[i] = c
    THEN CHOOSE i \in 1..Len(s) : s[i] = c /\ \A j \in (i + 1)..Len(s) : s[j] # c
    ELSE 0

\* str::replace(pat, rep): every non-overlapping match, left to right
RECURSIVE Replace(_, _, _)
Replace(s, pat, rep) ==
    IF s = <<>> THEN <<>>
    ELSE IF StartsWith(s, pat) THEN rep \o Replace(DropTo(s, Len(pat) + 1), pat, rep)
    ELSE <<Head(s)>> \o Replace(Tail(s), pat, rep)

\* str::trim_start_matches(pat): removes the prefix pat as often as it matches
RECURSIVE TrimStartMatches(_, _)
TrimStartMatches(s, pat) ==
    IF pat # <<>> /\ StartsWith(s, pat)
    THEN TrimStartMatches(DropTo(s, Len(pat) + 1), pat)
    ELSE s

UPPER == <<"A","B","C","D","E","F","G","H","I","J","K","L","M",
           "N","O","P","Q","R","S","T","U","V","W","X","Y","Z">>
LOWER == <<"a","b","c","d","e","f","g","h","i","j","k","l","m",
           "n","o","p","q","r","s","t","u","v","w","x","y","z">>

\* char::to_lowercase on the characters of the model
LowerChar(c) ==
    IF \E i \in 1..Len(UPPER) : UPPER[i] = c
    THEN LOWER[CHOOSE i \in 1..Len(UPPER) : UPPER[i] = c]
    ELSE c

\* str::to_lowercase
ToLowercase(s) == [i \in 1..Len(s) |-> LowerChar(s[i])]

\* a byte that is not valid UTF-8 text, as one element of an OsStr
BadByte == "<ff>"

\* OsStr::to_str succeeds
IsText(s) == \A i \in 1..Len(s) : s[i] # BadByte

----------------------------------------------------------------------------
(* u64: four 16-bit limbs, least significant first *)

Limb == 65536
Zero64 == <<0, 0, 0, 0>>

HEXLOWER == <<"0","1","2","3","4","5","6","7","8","9","a","b","c","d","e","f">>
HEXUPPER == <<"0","1","2","3","4","5","6","7","8","9","A","B","C","D","E","F">>

IsHexDigit(c) == \E i \in 1..16 : HEXLOWER[i] = c \/ HEXUPPER[i] = c

\* char::to_digit(16)
HexVal(c) == (CHOOSE i \in 1..16 : HEXLOWER[i] = c \/ HEXUPPER[i] = c) - 1

\* checked  v * 16 + d  on a u64
MulAdd16(v, d) ==
    LET t0 == v[1] * 16 + d
        t1 == v[2] * 16 + (t0 \div Limb)
        t2 == v[3] * 16 + (t1 \div Limb)
        t3 == v[4] * 16 + (t2 \div Limb)
    IN  [overflow |-> (t3 \div Limb) # 0,
         value |-> <<t0 % Limb, t1 % Limb, t2 % Limb, t3 % Limb>>]

\* the digit loop of from_str_radix: Err on a non-digit and on overflow
RECURSIVE ParseDigits(_, _)
ParseDigits(digits, acc) ==
    IF digits = <<>> THEN [ok |-> TRUE, value |-> acc]
    ELSE IF ~IsHexDigit(Head(digits)) THEN [ok |-> FALSE, value |-> Zero64]
    ELSE LET m == MulAdd16(acc, HexVal(Head(digits)))
         IN  IF m.overflow THEN [ok |-> FALSE, value |-> Zero64]
             ELSE ParseDigits(Tail(digits), m.value)

\* u64::from_str_radix(src, 16): Err on the empty string and on a lone sign;
\* a leading '+' is accepted, a '-' is an invalid digit of an unsigned type
from_str_radix(src) ==
    IF src = <<>> THEN [ok |-> FALSE, value |-> Zero64]
    ELSE IF Head(src) \in {"+", "-"} /\ Len(src) = 1 THEN [ok |-> FALSE, value |-> Zero64]
    ELSE IF Head(src) = "+" THEN ParseDigits(Tail(src), Zero64)
    ELSE ParseDigits(src, Zero64)

\* v / 16 and v % 16 on a u64
DivMod16(v) ==
    LET q3 == v[4] \div 16
        t2 == (v[4] % 16) * Limb + v[3]
        q2 == t2 \div 16
        t1 == (t2 % 16) * Limb + v[2]
        q1 == t1 \div 16
        t0 == (t1 % 16) * Limb + v[1]
    IN  [quot |-> <<t0 \div 16, q1, q2, q3>>, rem |-> t0 % 16]

\* fmt::LowerHex for u64: digits from the least significant, until the rest is 0
RECURSIVE LowerHex(_)
LowerHex(v) ==
    LET dm == DivMod16(v)
    IN  IF dm.quot = Zero64 THEN <<HEXLOWER[dm.rem + 1]>>
        ELSE LowerHex(dm.quot) \o <<HEXLOWER[dm.rem + 1]>>

\* format!("{:x}", v): no "0x" prefix
FormatPlainHex(v) == LowerHex(v)

\* format!("{:#x}", v)
FormatAltHex(v) == <<"0", "x">> \o LowerHex(v)

----------------------------------------------------------------------------
(* std::path::Path / camino::Utf8Path on a platform whose separator is '/' *)

\* the pieces of s between separators, empty pieces included
RECURSIVE SplitSlash(_)
SplitSlash(s) ==
    LET i == Find(s, "/")
    IN  IF i = 0 THEN <<s>>
        ELSE <<SubSeq(s, 1, i - 1)>> \o SplitSlash(DropTo(s, i + 1))

\* Path::components, each as its text: empty pieces (repeated and trailing
\* separators) vanish, and so does every "." that is not the first piece of
\* a relative path
Components(s) ==
    LET pieces == SplitSlash(s)
        keep(i) == /\ pieces[i] # <<>>
                   /\ (pieces[i] = <<".">> => (i = 1))
    IN  SelectSeq([i \in 1..Len(pieces) |-> <<i, pieces[i]>>],
                  LAMBDA e : keep(e[1]))

\* Path::file_name: the last component if it is a normal one; <<>> for None
\* (a normal component is never empty)
file_name(s) ==
    LET cs == Components(s)
    IN  IF cs = <<>> THEN <<>>
        ELSE LET last == cs[Len(cs)][2]
             IN  IF last = <<".">> \/ last = <<".", ".">> THEN <<>> ELSE last

HasFileName(s) == file_name(s) # <<>>

\* Path::extension().is_some(): the file name holds a '.' that is not its
\* first character
HasExtension(s) ==
    /\ HasFileName(s)
    /\ RFind(file_name(s), ".") > 1

----------------------------------------------------------------------------
(* Regions *)

\* pub const REGIONS
REGIONS == <<
       <<"j","p","_","j","a">>,
       <<"u","s","_","e","n">>,
       <<"u","s","_","f","r">>,
       <<"u","s","_","e","s">>,
       <<"e","u","_","e","n">>,
       <<"e","u","_","f","r">>,
       <<"e","u","_","e","s">>,
       <<"e","u","_","d","e">>,
       <<"e","u","_","n","l">>,
       <<"e","u","_","i","t">>,
       <<"e","u","_","r","u">>,
       <<"k","r","_","k","o">>,
       <<"z","h","_","c","n">>,
       <<"z","h","_","t","w">>
    >>

IsRegionTag(s) == \E i \in 1..Len(REGIONS) : REGIONS[i] = s

\* Option<Region>: <<>> is None, <<i>> is Some of the region whose tag is
\* REGIONS[i]
NoRegion == <<>>
SomeRegion(i) == <<i>>
RegionOfTag(s) == SomeRegion(CHOOSE i \in 1..Len(REGIONS) : REGIONS[i] = s)

\* smash_arc's Region::from_str: -1 for Err, 0 for Ok(Region::None), i for
\* Ok of the region tagged REGIONS[i].  "none" is taken to be the name of
\* Region::None; get_region_from_suffix maps it to None like any Err, so the
\* choice of that name shows in no result.
RegionFromStr(suffix) ==
    IF IsRegionTag(suffix) THEN CHOOSE i \in 1..Len(REGIONS) : REGIONS[i] = suffix
    ELSE IF suffix = <<"n","o","n","e">> THEN 0
    ELSE -1

get_region_from_suffix(suffix) ==
    LET parsed == RegionFromStr(suffix)
    IN  IF parsed < 0 THEN NoRegion            \* .ok()
        ELSE IF parsed = 0 THEN NoRegion       \* Region::None => None
        ELSE SomeRegion(parsed)

\* what a helper hands back: it returned a path and a region, or the thread
\* panicked
Returned(path, region) == [panicked |-> FALSE, path |-> path, region |-> region]
Panicked == [panicked |-> TRUE, path |-> <<>>, region |-> NoRegion]

get_region_from_path(path) ==
    IF ~HasFileName(path) THEN Panicked        \* file_name().unwrap()
    ELSE LET filename == file_name(path)
             index == Find(filename, "+")
         IN  IF index # 0
             THEN Returned(path, get_region_from_suffix(DropTo(filename, index + 1)))
             ELSE Returned(path, NoRegion)

\* a mutant of strip_region_from_path: a suffix that is no region is left in
\* the path
strip_region_from_path_keeps_unknown(path) ==
    LET index == RFind(path, "+")
        period == RFind(path, ".")
    IN  IF index = 0 THEN Returned(path, NoRegion)
        ELSE IF period = 0 \/ index > period THEN Panicked
        ELSE LET region == get_region_from_suffix(SubSeq(path, index + 1, period - 1))
             IN  IF region = NoRegion THEN Returned(path, NoRegion)
                 ELSE Returned(SubSeq(path, 1, index - 1) \o DropTo(path, period), region)

strip_region_from_path(path) ==
    LET index == RFind(path, "+")
        period == RFind(path, ".")
    IN  IF index = 0 THEN Returned(path, NoRegion)
        ELSE IF period = 0 THEN Panicked           \* rfind(".").unwrap()
        ELSE IF index > period THEN Panicked       \* drain(index..period)
        ELSE LET region == SubSeq(path, index, period - 1)
                 rest == SubSeq(path, 1, index - 1) \o DropTo(path, period)
             IN  Returned(rest, get_region_from_suffix(Tail(region)))

----------------------------------------------------------------------------
(* Hashes *)

\* Hash40(u64): a hash given as its 64-bit value
Hash40(v) == [literal |-> TRUE, u64 |-> v, text |-> <<>>]

\* Hash40::from(&str): the hash40 of a string, kept as the string it is taken of
Hash40From(text) == [literal |-> FALSE, u64 |-> Zero64, text |-> text]

NoHash == [literal |-> FALSE, u64 |-> Zero64, text |-> <<>>]

\* Result<Hash40, InvalidOsStrError>, or the panic of the calling thread
OkHash(h) == [status |-> "ok", hash |-> h]
InvalidOsStrError == [status |-> "err", hash |-> NoHash]
PanickedHash == [status |-> "panic", hash |-> NoHash]

\* the closure of smash_hash: the literal a file name denotes, if any
LiteralOfFileName(x) ==
    IF StartsWith(x, <<"0", "x">>)
    THEN from_str_radix(TrimStartMatches(x, <<"0", "x">>))
    ELSE [ok |-> FALSE, value |-> Zero64]

\* the string smash_hash hashes, before the region is stripped
Normalized(path) ==
    Replace(Replace(ToLowercase(path), <<";">>, <<":">>),
            <<".","m","p","4">>, <<".","w","e","b","m">>)

smash_hash(path) ==
    LET lit == IF HasFileName(path) /\ IsText(file_name(path))
               THEN LiteralOfFileName(file_name(path))
               ELSE [ok |-> FALSE, value |-> Zero64]
    IN  IF ~HasExtension(path) /\ lit.ok THEN OkHash(Hash40(lit.value))
        ELSE IF ~IsText(path) THEN InvalidOsStrError
        ELSE LET stripped == strip_region_from_path(Normalized(path))
             IN  IF stripped.panicked THEN PanickedHash
                 ELSE OkHash(Hash40From(TrimStartMatches(stripped.path, <<"/">>)))

\* hashes::try_find: the strings of the hashes the dictionary knows
KnownHashes == { <<0, 0, 0, 1>>, <<43981, 0, 0, 0>> }
try_find(hash) == <<"f","i","g","h","t","e","r","/","m","a","r","i","o">>

\* a mutant of get_path_from_hash: "{:x}" for "{:#x}"
get_path_from_hash_no_prefix(hash) ==
    IF hash \in KnownHashes THEN try_find(hash) ELSE FormatPlainHex(hash)

get_path_from_hash(hash) ==
    IF hash \in KnownHashes THEN try_find(hash) ELSE FormatAltHex(hash)

----------------------------------------------------------------------------
(* The inputs the host hands to the path helpers *)

Strings(alphabet, n) == UNION { [1..k -> alphabet] : k \in 0..n }

SmallAlphabet == {"/", "+", ".", "a"}
ShortStrings == Strings(SmallAlphabet, MaxLen)

Dirs == { <<>>,
          <<"/">>,
          <<"d","/">>,
          <<"d","+","x","/">>,
          <<"d",".","e","/">>,
          <<"s","t","r","e","a","m",":","/","v","o","i","c","e","/">> }

Stems == { <<"a">>,
           <<"a","+","b">>,
           <<"a",".","b">>,
           <<"d","i","a","l","o","g","u","e">> }

Suffixes == { <<>>,
              <<"+">>,
              <<"+","z","z","_","z","z">>,
              <<"+","n","o","n","e">>,
              <<"+","U","S","_","E","N">> }
            \cup { <<"+">> \o REGIONS[i] : i \in 1..Len(REGIONS) }

Exts == { <<>>,
          <<".">>,
          <<".","b">>,
          <<".","b","+","c">>,
          <<".","t","a","r",".","g","z">>,
          <<".","m","p","4">>,
          <<".","n","u","s","3","a","u","d","i","o">> }

BuiltPaths == { d \o st \o su \o e : d \in Dirs, st \in Stems, su \in Suffixes, e \in Exts }

\* what strip_region_from_path and get_region_from_path are called with
Utf8Paths == ShortStrings \cup BuiltPaths

HexSample == {"0", "1", "f", "A", "g"}
HexRuns == Strings(HexSample, MaxHexLen)
           \cup { <<"0","1","2","3","4","5","6","7","8","9","a","b","c","d","e","f">>,
                  <<"f","f","f","f","f","f","f","f","f","f","f","f","f","f","f","f">>,
                  <<"F","E","D","C","B","A","9","8","7","6","5","4","3","2","1","0">>,
                  <<"1","0","0","0","0","0","0","0","0","0","0","0","0","0","0","0","0">>,
                  <<"0","0","0","0","0","0","0","0","0","0","0","0","0","0","0","0","1">> }

HexPrefixes == { <<>>, <<"0","x">>, <<"0","X">>, <<"0","x","0","x">>,
                 <<"0","x","+">>, <<"0","x","-">>, <<"a","0","x">> }

HexDirs == { <<>>, <<"d","/">>, <<"d",".","e","/">>, <<BadByte, "/">> }

HexTails == { <<>>, <<"/">>, <<".","b">>, <<".">> }

HexPaths == { d \o p \o r \o t : d \in HexDirs, p \in HexPrefixes, r \in HexRuns, t \in HexTails }

MixedPaths == { <<"S","t","r","e","a","m",";","/","A","+","U","S","_","E","N",".","M","P","4">>,
                <<"/","/","a",".","m","p","4","+","x",".","m","p","4">>,
                <<"a", BadByte, ".","b">>,
                <<"d","/", BadByte>>,
                <<"0","x","1", BadByte>> }

\* what smash_hash is called with
OsPaths == Utf8Paths \cup HexPaths \cup MixedPaths

LimbSample == {0, 1, 43981, 65535}

\* what get_path_from_hash is called with
Hashes == [1..4 -> LimbSample]

----------------------------------------------------------------------------
(* The host applying the helpers *)

NoValue == <<>>

InitPaths ==
    /\ pc = "idle"
    /\ fn = "none"
    /\ arg = NoValue
    /\ ret = NoValue

CallStripRegion ==
    /\ pc = "idle"
    /\ \E path \in Utf8Paths :
        /\ arg' = path
        /\ ret' = strip_region_from_path(path)
    /\ fn' = "strip_region_from_path"
    /\ pc' = "returned"

CallGetRegion ==
    /\ pc = "idle"
    /\ \E path \in Utf8Paths :
        /\ arg' = path
        /\ ret' = get_region_from_path(path)
    /\ fn' = "get_region_from_path"
    /\ pc' = "returned"

CallSmashHash ==
    /\ pc = "idle"
    /\ \E path \in OsPaths :
        /\ arg' = path
        /\ ret' = smash_hash(path)
    /\ fn' = "smash_hash"
    /\ pc' = "returned"

CallGetPathFromHash ==
    /\ pc = "idle"
    /\ \E hash \in Hashes :
        /\ arg' = hash
        /\ ret' = get_path_from_hash(hash)
    /\ fn' = "get_path_from_hash"
    /\ pc' = "returned"

\* the host hashes the path get_path_from_hash gave it
CallSmashHashOnPath ==
    /\ pc = "returned"
    /\ fn = "get_path_from_hash"
    /\ ret' = [text |-> ret, hash |-> smash_hash(ret)]
    /\ fn' = "round_trip"
    /\ UNCHANGED <<pc, arg>>

HostContinue ==
    /\ pc = "returned"
    /\ pc' = "idle"
    /\ fn' = "none"
    /\ arg' = NoValue
    /\ ret' = NoValue

----------------------------------------------------------------------------
(* The resource table behind GLOBAL_FILESYSTEM and its lifecycle *)

\* Duration::from_millis(5000): the worker's sleep before discovery
SleepMillis == 5000

Identities == 1..NumIds
Payloads == {"modA", "modB"}
OriginalOnly == [kind |-> "OriginalOnly", payload |-> "none"]
Replaced(payload) == [kind |-> "Replaced", payload |-> payload]
Entries == {OriginalOnly} \cup { Replaced(p) : p \in Payloads }

\* PlaceholderFs::default(): no entry recorded
EmptyTable == [id \in {} |-> OriginalOnly]

\* a mutant of TryInsert: HashMap::insert, which overwrites
Insert(map, key, value) ==
    [ok |-> TRUE,
     map |-> [k \in DOMAIN map \cup {key} |-> IF k = key THEN value ELSE map[k]]]

\* HashMap::try_insert (feature map_try_insert, "for not overwriting
\* previously stored hashes"): Err, and the map as it was, when the key is taken
TryInsert(map, key, value) ==
    IF key \in DOMAIN map THEN [ok |-> FALSE, map |-> map]
    ELSE [ok |-> TRUE,
          map |-> [k \in DOMAIN map \cup {key} |-> IF k = key THEN value ELSE map[k]]]

\* begin_discovery(): Empty -> Discovering, a no-op in any other state
begin_discovery(state) == IF state = "Empty" THEN "Discovering" ELSE state

\* finish_discovery(): Discovering -> Ready, a no-op in any other state
finish_discovery(state) == IF state = "Discovering" THEN "Ready" ELSE state

\* record(identity, entry): first writer wins, a collision is one warning
record(tbl, warned, identity, entry) ==
    LET r == TryInsert(tbl, identity, entry)
    IN  [table |-> r.map, warnings |-> IF r.ok THEN warned ELSE warned + 1]

\* table operations performed so far
Calls == beginCalls + finishCalls + Cardinality(DOMAIN first) + warnings

NoCall == [op |-> "none", id |-> 0, n |-> 0]
Call(op, id) == [op |-> op, id |-> id, n |-> Calls + 1]

EntersReady(before, after) == IF before # "Ready" /\ after = "Ready" THEN 1 ELSE 0

InitLife ==
    /\ mainPc = "start"
    /\ workers = 0
    /\ workerPc = "none"
    /\ wakeAt = 0
    /\ clock = 0
    /\ hookDone = FALSE
    /\ events = <<>>
    /\ lifecycle = "Empty"
    /\ table = EmptyTable
    /\ warnings = 0
    /\ first = EmptyTable
    /\ lastCall = NoCall
    /\ beginCalls = 0
    /\ finishCalls = 0
    /\ readyEntries = 0

tableVars == <<lifecycle, table, warnings, first, lastCall, beginCalls,
               finishCalls, readyEntries>>

\* a mutant of SpawnDiscovery: the commented-out "Promised" spawn is live
\* too, and main starts two workers
SpawnDiscoveryTwice(n) == n + 2

\* std::thread::Builder::new().stack_size(0x40000).spawn(..): one more thread
SpawnDiscovery(n) == n + 1

\* main: init_time, GLOBAL_CONFIG, ninput, logging
MainStart ==
    /\ mainPc = "start"
    /\ mainPc' = "spawn"
    /\ UNCHANGED <<workers, workerPc, wakeAt, clock, hookDone, events>>
    /\ UNCHANGED tableVars

\* main: spawns the discovery worker, which first sleeps
MainSpawn ==
    /\ mainPc = "spawn"
    /\ mainPc' = "hooks"
    /\ workers' = SpawnDiscovery(workers)
    /\ workerPc' = "sleeping"
    /\ wakeAt' = clock + SleepMillis
    /\ UNCHANGED <<clock, hookDone, events>>
    /\ UNCHANGED tableVars

\* main: skyline::install_hooks!, replacement::install, the panic hook
MainInstallHooks ==
    /\ mainPc = "hooks"
    /\ mainPc' = "setup"
    /\ UNCHANGED <<workers, workerPc, wakeAt, clock, hookDone, events>>
    /\ UNCHANGED tableVars

\* main: api::event::setup(), and main returns without joining the worker
MainSetupEvents ==
    /\ mainPc = "setup"
    /\ mainPc' = "done"
    /\ UNCHANGED <<workers, workerPc, wakeAt, clock, hookDone, events>>
    /\ UNCHANGED tableVars

HooksInstalled == mainPc \in {"setup", "done"}

\* the host reaches its initial loading and runs the inline hook
initial_loading ==
    /\ HooksInstalled
    /\ ~hookDone
    /\ hookDone' = TRUE
    /\ events' = Append(events, "ArcFilesystemMounted")
    /\ UNCHANGED <<mainPc, workers, workerPc, wakeAt, clock>>
    /\ UNCHANGED tableVars

\* time passes
Tick ==
    /\ clock + TickMillis <= MaxClock
    /\ clock' = clock + TickMillis
    /\ UNCHANGED <<mainPc, workers, workerPc, wakeAt, hookDone, events>>
    /\ UNCHANGED tableVars

\* the worker's sleep ends and it enters fs::perform_discovery
WorkerWake ==
    /\ workerPc = "sleeping"
    /\ clock >= wakeAt
    /\ workerPc' = "begin"
    /\ UNCHANGED <<mainPc, workers, wakeAt, clock, hookDone, events>>
    /\ UNCHANGED tableVars

\* the effect of one begin_discovery() call on the table's state
DoBegin ==
    /\ lifecycle' = begin_discovery(lifecycle)
    /\ beginCalls' = beginCalls + 1
    /\ lastCall' = Call("begin_discovery", 0)
    /\ readyEntries' = readyEntries + EntersReady(lifecycle, lifecycle')
    /\ UNCHANGED <<table, warnings, first, finishCalls>>

\* the effect of one finish_discovery() call on the table's state
DoFinish ==
    /\ lifecycle' = finish_discovery(lifecycle)
    /\ finishCalls' = finishCalls + 1
    /\ lastCall' = Call("finish_discovery", 0)
    /\ readyEntries' = readyEntries + EntersReady(lifecycle, lifecycle')
    /\ UNCHANGED <<table, warnings, first, beginCalls>>

\* perform_discovery: the worker begins discovery
WorkerBegin ==
    /\ workerPc = "begin"
    /\ workerPc' = "scan"
    /\ DoBegin
    /\ UNCHANGED <<mainPc, workers, wakeAt, clock, hookDone, events>>

\* perform_discovery: one candidate file of the mod tree is recorded
WorkerRecord ==
    /\ workerPc = "scan"
    /\ Cardinality(DOMAIN first) + warnings < MaxRecords
    /\ \E id \in Identities, entry \in Entries :
        LET r == record(table, warnings, id, entry)
        IN  /\ table' = r.table
            /\ warnings' = r.warnings
            /\ first' = IF id \in DOMAIN first THEN first
                        ELSE [k \in DOMAIN first \cup {id} |->
                                 IF k = id THEN entry ELSE first[k]]
            /\ lastCall' = Call("record", id)
    /\ UNCHANGED <<lifecycle, beginCalls, finishCalls, readyEntries>>
    /\ UNCHANGED <<mainPc, workers, workerPc, wakeAt, clock, hookDone, events>>

\* perform_discovery: the scan is over
WorkerFinish ==
    /\ workerPc = "scan"
    /\ workerPc' = "emit"
    /\ DoFinish
    /\ UNCHANGED <<mainPc, workers, wakeAt, clock, hookDone, events>>

\* perform_discovery: the completion event goes out to the subscribers
WorkerEmit ==
    /\ workerPc = "emit"
    /\ workerPc' = "done"
    /\ events' = Append(events, "ModFilesystemReady")
    /\ UNCHANGED <<mainPc, workers, wakeAt, clock, hookDone>>
    /\ UNCHANGED tableVars

\* misuse: begin_discovery() is called again
BeginAgain ==
    /\ beginCalls >= 1
    /\ beginCalls < MaxCalls
    /\ DoBegin
    /\ UNCHANGED <<mainPc, workers, workerPc, wakeAt, clock, hookDone, events>>

\* misuse: finish_discovery() is called again
FinishAgain ==
    /\ finishCalls >= 1
    /\ finishCalls < MaxCalls
    /\ DoFinish
    /\ UNCHANGED <<mainPc, workers, workerPc, wakeAt, clock, hookDone, events>>

----------------------------------------------------------------------------
(* Specifications *)

Init == InitPaths /\ InitLife

\* start-up, discovery and the table
Next ==
    \/ (MainStart /\ UNCHANGED pathVars)
    \/ (MainSpawn /\ UNCHANGED pathVars)
    \/ (MainInstallHooks /\ UNCHANGED pathVars)
    \/ (MainSetupEvents /\ UNCHANGED pathVars)
    \/ (initial_loading /\ UNCHANGED pathVars)
    \/ (Tick /\ UNCHANGED pathVars)
    \/ (WorkerWake /\ UNCHANGED pathVars)
    \/ (WorkerBegin /\ UNCHANGED pathVars)
    \/ (WorkerRecord /\ UNCHANGED pathVars)
    \/ (WorkerFinish /\ UNCHANGED pathVars)
    \/ (WorkerEmit /\ UNCHANGED pathVars)
    \/ (BeginAgain /\ UNCHANGED pathVars)
    \/ (FinishAgain /\ UNCHANGED pathVars)

Spec == Init /\ [][Next]_vars

\* the host calling the path helpers
NextPaths ==
    \/ (CallStripRegion /\ UNCHANGED lifeVars)
    \/ (CallGetRegion /\ UNCHANGED lifeVars)
    \/ (CallSmashHash /\ UNCHANGED lifeVars)
    \/ (CallGetPathFromHash /\ UNCHANGED lifeVars)
    \/ (CallSmashHashOnPath /\ UNCHANGED lifeVars)
    \/ (HostContinue /\ UNCHANGED lifeVars)

SpecPaths == Init /\ [][NextPaths]_vars

----------------------------------------------------------------------------
(* Vocabulary of the properties: what the text says about a path, stated    *)
(* without the helpers' code                                                *)

\* the greatest index of c in s, 0 if there is none
LastIndex(s, c) ==
    LET at == { i \in 1..Len(s) : s[i] = c }
    IN  IF at = {} THEN 0 ELSE CHOOSE i \in at : \A j \in at : j <= i

\* s without s[from..to-1]
Cut(s, from, to) ==
    [k \in 1..(Len(s) - (to - from)) |-> IF k < from THEN s[k] ELSE s[k + (to - from)]]

\* the directory part of a path: everything up to its last separator
DirOf(s) == SubSeq(s, 1, LastIndex(s, "/"))

\* the text after the last separator
NameOf(s) == DropTo(s, LastIndex(s, "/") + 1)

\* index in s of the '+' of a "+<tag>." whose tag has the catalog's length
\* and whose '.' is the last one of the name; 0 if the name has no such shape
TagStart(s) ==
    LET dot == LastIndex(s, ".")
    IN  IF dot - 6 > LastIndex(s, "/") /\ s[dot - 6] = "+" THEN dot - 6 ELSE 0

\* the name is <stem>+<tag>.<ext>, <tag> in the catalog, <ext> the extension
HasRegionForm(s) ==
    /\ TagStart(s) > 0
    /\ IsRegionTag(SubSeq(s, TagStart(s) + 1, TagStart(s) + 5))

TagOf(s) == SubSeq(s, TagStart(s) + 1, TagStart(s) + 5)
ExtOf(s) == DropTo(s, LastIndex(s, ".") + 1)
WithoutTag(s) == Cut(s, TagStart(s), TagStart(s) + 6)

StripReturned == pc = "returned" /\ fn = "strip_region_from_path"
GetRegionReturned == pc = "returned" /\ fn = "get_region_from_path"
SmashHashReturned == pc = "returned" /\ fn = "smash_hash"
RoundTripReturned == pc = "returned" /\ fn = "round_trip"

----------------------------------------------------------------------------
(* Properties of the path helpers, under SpecPaths *)

\* C1: for every path whose file name is <stem>+<tag>.<ext> with <tag> in
\* the catalog, strip_region_from_path returns the path without "+<tag>",
\* the extension intact, and the region of <tag>.
StripReturnsPathAndRegion ==
    (StripReturned /\ HasRegionForm(arg)) =>
        ret = Returned(WithoutTag(arg), RegionOfTag(TagOf(arg)))

\* C1, on the extensions that hold no '+': there the statement holds
StripReturnsPathAndRegionPlainExt ==
    (StripReturned /\ HasRegionForm(arg) /\ LastIndex(ExtOf(arg), "+") = 0) =>
        ret = Returned(WithoutTag(arg), RegionOfTag(TagOf(arg)))

\* the segment strip_region_from_path looks at: from the last '+' up to the
\* last '.', when they come in that order
HasSuffixSegment(s) == 0 < LastIndex(s, "+") /\ LastIndex(s, "+") < LastIndex(s, ".")
SuffixOf(s) == SubSeq(s, LastIndex(s, "+") + 1, LastIndex(s, ".") - 1)

\* C2, as claimed: a "+<suffix>" that is no catalog tag is left untouched:
\* the path comes back as it was, with region None.
UnknownSuffixUntouched ==
    (StripReturned /\ HasSuffixSegment(arg) /\ SuffixOf(arg) # <<>>
                   /\ ~IsRegionTag(SuffixOf(arg))) =>
        ret = Returned(arg, NoRegion)

\* C2, amended: when the last '+' precedes the last '.' and the text between
\* them is no catalog tag, strip_region_from_path returns region None and
\* the path with that "+<suffix>" segment removed all the same.
UnknownSuffixStripped ==
    (StripReturned /\ HasSuffixSegment(arg) /\ ~IsRegionTag(SuffixOf(arg))) =>
        ret = Returned(Cut(arg, LastIndex(arg, "+"), LastIndex(arg, ".")), NoRegion)

\* C2's case: an unknown five-letter suffix before an extension was stripped
UnknownSuffixStrippedWitness ==
    /\ StripReturned
    /\ HasSuffixSegment(arg)
    /\ SuffixOf(arg) = <<"z","z","_","z","z">>
    /\ ~ret.panicked
    /\ Len(ret.path) = Len(arg) - 6
    /\ ret.region = NoRegion

\* the 64-bit value a run of at most 16 hex digits denotes, limb by limb
NibbleAt(digits, k) ==
    IF k <= 16 - Len(digits) THEN 0 ELSE HexVal(digits[k - (16 - Len(digits))])
LimbOf(digits, l) ==
    NibbleAt(digits, 17 - 4 * l) * 4096 + NibbleAt(digits, 18 - 4 * l) * 256
    + NibbleAt(digits, 19 - 4 * l) * 16 + NibbleAt(digits, 20 - 4 * l)
ValueOf(digits) == [l \in 1..4 |-> LimbOf(digits, l)]

AllHex(s) == \A i \in 1..Len(s) : IsHexDigit(s[i])

\* s without its leading '0's
RECURSIVE Significant(_)
Significant(s) == IF s # <<>> /\ Head(s) = "0" THEN Significant(Tail(s)) ELSE s

\* the file name is "0x" and then 1 to 16 hex digits, and has no extension
IsShortLiteral(s) ==
    /\ HasFileName(s)
    /\ ~HasExtension(s)
    /\ StartsWith(file_name(s), <<"0", "x">>)
    /\ Len(file_name(s)) \in 3..18
    /\ AllHex(DropTo(file_name(s), 3))

\* s without the one '+' a number may be written with
Unsigned(s) == IF s # <<>> /\ Head(s) = "+" THEN Tail(s) ELSE s

\* the file name is "0x" and then a hexadecimal 64-bit integer (hex digits,
\* after an optional sign, whose value fits 64 bits), and has no extension
IsLiteral(s) ==
    /\ HasFileName(s)
    /\ ~HasExtension(s)
    /\ StartsWith(file_name(s), <<"0", "x">>)
    /\ Unsigned(DropTo(file_name(s), 3)) # <<>>
    /\ AllHex(Unsigned(DropTo(file_name(s), 3)))
    /\ Len(Significant(Unsigned(DropTo(file_name(s), 3)))) <= 16

\* C3, first half: "0x" and 1 to 16 hex digits, no extension: smash_hash
\* returns the value the digits denote
LiteralHashIsItsValue ==
    (SmashHashReturned /\ IsShortLiteral(arg)) =>
        ret = OkHash(Hash40(ValueOf(DropTo(file_name(arg), 3))))

\* C3: a path with no extension whose file name is "0x" and 1 to 16 hex
\* digits gets the value of the digits, not a hash of the string; any other
\* file name never gets a literal identity.
LiteralHashOnlyForMarkedHex ==
    /\ LiteralHashIsItsValue
    /\ (SmashHashReturned /\ ~IsLiteral(arg)) => ~ret.hash.literal

\* C4: smash_hash and strip_region_from_path always return a value (an
\* identity, or the invalid-text error) and never panic.
NormalizationNeverPanics ==
    /\ StripReturned => ~ret.panicked
    /\ SmashHashReturned => ret.status # "panic"

\* C5: strip_region_from_path leaves every directory component and every
\* separator as they were, and removes nothing but a "+<suffix>" that sits
\* in the file name right before its final extension.
StripTouchesFileNameOnly ==
    (StripReturned /\ ~ret.panicked) =>
        /\ DirOf(ret.path) = DirOf(arg)
        /\ \/ ret.path = arg
           \/ /\ LastIndex(arg, "/") < LastIndex(arg, "+")
              /\ HasSuffixSegment(arg)
              /\ ret.path = Cut(arg, LastIndex(arg, "+"), LastIndex(arg, "."))

\* C6: get_region_from_path takes the candidate from the file name without
\* its extension: the region of <tag> for a file name <stem>+<tag>.<ext>,
\* None for a file name with no '+' or with a suffix outside the catalog;
\* the path is not modified.
GetRegionOfTaggedFileName ==
    (GetRegionReturned /\ HasFileName(arg)) =>
        /\ ~ret.panicked
        /\ ret.path = arg
        /\ HasRegionForm(arg) => ret.region = RegionOfTag(TagOf(arg))
        /\ LastIndex(file_name(arg), "+") = 0 => ret.region = NoRegion
        /\ ret.region # NoRegion => \E i \in 1..Len(REGIONS) : ret.region = SomeRegion(i)

\* the hex digits of a u64, most significant first, without leading zeros
Pow16(e) == CASE e = 0 -> 1 [] e = 1 -> 16 [] e = 2 -> 256 [] e = 3 -> 4096
NibbleOf(h, k) == (h[4 - ((k - 1) \div 4)] \div Pow16(3 - ((k - 1) % 4))) % 16
HexDigitsOf(h) ==
    LET all == [k \in 1..16 |-> HEXLOWER[NibbleOf(h, k) + 1]]
        lead == { k \in 1..16 : NibbleOf(h, k) # 0 }
        from == IF lead = {} THEN 16 ELSE CHOOSE k \in lead : \A j \in lead : k <= j
    IN  SubSeq(all, from, 16)

\* C10: for an identity h the dictionary does not know, get_path_from_hash(h)
\* is "0x" and the lower-case hex digits of h without padding, and
\* smash_hash of that string is h again.
HexFallbackRoundTrip ==
    /\ (pc = "returned" /\ fn = "get_path_from_hash" /\ arg \notin KnownHashes) =>
           ret = <<"0", "x">> \o HexDigitsOf(arg)
    /\ (RoundTripReturned /\ arg \notin KnownHashes) =>
           /\ ret.text = <<"0", "x">> \o HexDigitsOf(arg)
           /\ ret.hash = OkHash(Hash40(arg))

\* C10's case: an identity with its top bit set went to its 16 digits and back
HexFallbackRoundTripWitness ==
    /\ RoundTripReturned
    /\ arg \notin KnownHashes
    /\ arg[4] = 65535
    /\ arg[1] = 43981
    /\ Len(ret.text) = 18
    /\ ret.hash.status = "ok"
    /\ ret.hash.hash.literal
    /\ ret.hash.hash.u64 = arg

----------------------------------------------------------------------------
(* Properties of start-up, discovery and the table, under Spec *)

Spawned == mainPc \in {"hooks", "setup", "done"}

\* a step that is a repeated begin_discovery or finish_discovery call
RepeatedCall ==
    \/ (beginCalls' > beginCalls /\ beginCalls >= 1)
    \/ (finishCalls' > finishCalls /\ finishCalls >= 1)

\* C7: the lifecycle goes Empty -> Discovering -> Ready and nothing else:
\* main starts exactly one discovery worker, Ready is entered once, by the
\* step in which that worker finishes, and is never left, and a repeated
\* begin_discovery or finish_discovery changes neither state nor table.
LifecycleIsLinear ==
    /\ [](/\ workers <= 1
          /\ Spawned => workers = 1
          /\ readyEntries <= 1
          /\ lifecycle = "Ready" => readyEntries = 1)
    /\ [][lifecycle' # lifecycle =>
             <<lifecycle, lifecycle'>> \in
                 {<<"Empty", "Discovering">>, <<"Discovering", "Ready">>}]_vars
    /\ [][(lifecycle # "Ready" /\ lifecycle' = "Ready") =>
             (workerPc = "scan" /\ workerPc' = "emit")]_vars
    /\ [][RepeatedCall => UNCHANGED <<lifecycle, table>>]_vars

\* C7's case: both calls were repeated after the worker had finished
LifecycleIsLinearWitness ==
    /\ workers = 1
    /\ workerPc = "done"
    /\ lifecycle = "Ready"
    /\ beginCalls = 2
    /\ finishCalls = 2
    /\ readyEntries = 1
    /\ DOMAIN table # {}

\* a step that is a record call for an identity recorded before
RejectedRecord ==
    /\ lastCall' # lastCall
    /\ lastCall'.op = "record"
    /\ lastCall'.id \in DOMAIN first

\* a step that is the first record call for its identity
AcceptedRecord ==
    /\ lastCall' # lastCall
    /\ lastCall'.op = "record"
    /\ lastCall'.id \notin DOMAIN first

\* C8: the entry stored for an identity is the one its first record call
\* gave; a later record for it leaves the table as it was and emits exactly
\* one warning; a stored entry never changes.
FirstWriterWins ==
    /\ [](/\ DOMAIN table = DOMAIN first
          /\ \A id \in DOMAIN first : table[id] = first[id])
    /\ [][RejectedRecord => (table' = table /\ warnings' = warnings + 1)]_vars
    /\ [][AcceptedRecord => warnings' = warnings]_vars
    /\ [][\A id \in DOMAIN table :
             id \in DOMAIN table' /\ table'[id] = table[id]]_vars

\* C8's case: a replaced identity was recorded again, twice
FirstWriterWinsWitness ==
    /\ lastCall.op = "record"
    /\ lastCall.id \in DOMAIN table
    /\ table[lastCall.id].kind = "Replaced"
    /\ Cardinality(DOMAIN table) = 1
    /\ warnings = 2

\* C9: whatever the timing of the hook and of the worker, the mounted event
\* is delivered before the ready event.
MountedBeforeReady ==
    \A i \in 1..Len(events) :
        events[i] = "ModFilesystemReady" =>
            \E j \in 1..(i - 1) : events[j] = "ArcFilesystemMounted"

=============================================================================
